---- MODULE Spec2Model ----
(***************************************************************************)
(* Core15 survey dashboard (src/app.py): the normalisation, aggregation,   *)
(* theming and filtering pipeline.                                         *)
(*                                                                         *)
(* Conventions of the model                                                *)
(*  - A Python str is a TLA+ string; characters are reached with SubSeq.   *)
(*  - A cell of the DataFrame is a tagged record: [t |-> "str", v |-> s],  *)
(*    [t |-> "int", v |-> n] or [t |-> "nan"] (NaN / missing).             *)
(*  - A pandas Series / list is a sequence.                                *)
(*  - A percentage is kept in tenths of a percent (333 stands for 33.3),   *)
(*    which is exactly what rounding to one decimal place can represent.   *)
(***************************************************************************)
EXTENDS Integers, Sequences, FiniteSets, TLC

(***************************************************************************)
(* Config                                                                  *)
(***************************************************************************)
Q_EXPERIENCE == "How many years of professional experience do you have?"
Q_ROLE == "Which best describes your current role?"
Q_GENDER == "What is your gender?"
Q_ASSESSMENT == "Have you ever used a leadership or personality assessment that was NOT required by an employer?"
Q_SOURCES == "Which sources do you take feedback on your capabilities from seriously?"

DEMOGRAPHIC_COLS == << Q_EXPERIENCE, Q_ROLE, Q_GENDER >>

ALLOWED ==
  [ q \in { "In the last 6 months, have you experienced any of the following?",
            "Which of the following do you believe most contributed to these outcomes?",
            "Which of these best describes your current motivation to improve leadership skills?",
            "In the last 12 months, how much have you personally spent on professional or leadership development?",
            "What best explains the reason for your spending on leadership development over the past 12 months?",
            "What have you personally paid for?",
            "If a leadership assessment + personalized training system clearly improved your effectiveness as a leader, what would feel like a reasonable monthly price?",
            "When it comes to leadership or professional development, I generally expect:",
            Q_ASSESSMENT,
            Q_SOURCES,
            "Seeing my leadership skills benchmarked against others would feel:",
            "Think about the last self-improvement effort you started on your own. What happened?",
            "What most often causes you to stop engaging with self-development tools?",
            "What would most increase your likelihood of sticking with a leadership development system?",
            Q_EXPERIENCE, Q_ROLE, Q_GENDER } |->
    CASE q = "In the last 6 months, have you experienced any of the following?" ->
           << "Missed a promotion or opportunity",
              "Received critical feedback about leadership or influence",
              "Felt ineffective managing others",
              "Struggled with conflict or alignment",
              "Felt stuck despite strong technical skills",
              "None of the above" >>
      [] q = "Which of the following do you believe most contributed to these outcomes?" ->
           << "Gaps in my leadership or interpersonal skills",
              "Lack of clear feedback or expectations",
              "Organizational politics or bias",
              "Limited opportunity or timing",
              "I'm not sure what the real cause is",
              "Other (open text)" >>
      [] q = "Which of these best describes your current motivation to improve leadership skills?" ->
           << "I am actively trying to improve right now",
              "I know I should improve, but haven't taken action",
              "It matters, but not urgent",
              "Not a priority for me" >>
      [] q = "In the last 12 months, how much have you personally spent on professional or leadership development?" ->
           << "0", "<$100", "$100-$500", "$500-$1,500", "$1,500+" >>
      [] q = "What best explains the reason for your spending on leadership development over the past 12 months?" ->
           << "My employer typically pays for this",
              "I didn't actively look for solutions",
              "I looked, but didn't find anything credible",
              "I found options, but they felt too expensive",
              "I don't usually pay for self-development",
              "Other (open text)" >>
      [] q = "What have you personally paid for?" ->
           << "Online course",
              "Assessment or personality test",
              "Coaching (group or 1:1)",
              "Books or learning subscriptions",
              "Nothing paid personally" >>
      [] q = "If a leadership assessment + personalized training system clearly improved your effectiveness as a leader, what would feel like a reasonable monthly price?" ->
           << "0", "$10-$25", "$25-$50", "$50-$100", "$100+" >>
      [] q = "When it comes to leadership or professional development, I generally expect:" ->
           << "My Employer to pay",
              "A mix of employer and personal spending",
              "To pay myself" >>
      [] q = Q_ASSESSMENT -> << "Yes", "No" >>
      [] q = Q_SOURCES ->
           << "Manager", "Peers", "Coach or Mentor", "Assessment tools",
              "Self-reflection only", "I generally distrust feedback" >>
      [] q = "Seeing my leadership skills benchmarked against others would feel:" ->
           << "Motivating", "Interesting but neutral", "Anxiety-inducing",
              "Not useful", "Actively discouraging" >>
      [] q = "Think about the last self-improvement effort you started on your own. What happened?" ->
           << "I stuck with it consistently",
              "I stayed engaged for a while, then dropped off",
              "I barely got started",
              "I avoid self-directed programs" >>
      [] q = "What most often causes you to stop engaging with self-development tools?" ->
           << "Time constraints", "Lack of accountability", "Content wasn't relevant",
              "Hard to see progress", "Lost motivation", "Cost", "Other" >>
      [] q = "What would most increase your likelihood of sticking with a leadership development system?" ->
           << "Clear progress tracking", "Personalized recommendations",
              "Social comparison or benchmarks",
              "External accountability (coach, group)",
              "Short, lightweight activities" >>
      [] q = Q_EXPERIENCE -> << "0-3", "4-7", "8-15", "16+" >>
      [] q = Q_ROLE ->
           << "Individual Contributor", "People Manager", "Senior Leader",
              "Founder/Executive" >>
      [] q = Q_GENDER -> << "Male", "Female", "Prefer not to say" >> ]

MULTI_SELECT ==
  { "In the last 6 months, have you experienced any of the following?",
    "What have you personally paid for?",
    Q_SOURCES,
    "What most often causes you to stop engaging with self-development tools?" }

OTHER_LABEL == "other"

PROLIFIC_COL == "What is your Prolific ID?"

FRUSTRATION_QUESTION == "What frustrates you most about trying to improve as a leader?"

\* a column of the workbook that ALLOWED does not list (an open-text question)
Q_FREETEXT == "Is there anything else you would like to share?"

\* the themes dict of create_themes_for_frustrations, in declaration order
THEMES ==
  << [theme |-> "Time constraints",
      keywords |-> << "time", "busy", "schedule", "hours", "workload", "overwhelmed",
                      "no time", "don't have time", "lack of time" >>],
     [theme |-> "Lack of feedback/guidance",
      keywords |-> << "feedback", "guidance", "mentor", "coach", "direction", "advice",
                      "support", "help", "don't know how", "unsure how" >>],
     [theme |-> "Cost/money",
      keywords |-> << "cost", "expensive", "money", "price", "afford", "budget",
                      "financial", "pay", "paid" >>],
     [theme |-> "Not seeing progress/results",
      keywords |-> << "progress", "results", "improvement", "change", "see results",
                      "measurable", "outcomes", "impact" >>],
     [theme |-> "Lack of accountability/motivation",
      keywords |-> << "accountability", "motivation", "discipline", "consistency",
                      "stick with", "follow through", "commitment" >>],
     [theme |-> "Content not relevant/applicable",
      keywords |-> << "relevant", "applicable", "practical", "real-world", "useful",
                      "actionable", "relatable" >>],
     [theme |-> "Information overload/too much",
      keywords |-> << "overwhelming", "too much", "information overload", "complex",
                      "complicated", "confusing" >>],
     [theme |-> "Lack of resources/tools",
      keywords |-> << "resources", "tools", "access", "available", "options",
                      "programs", "platforms" >>],
     [theme |-> "Organizational/systemic barriers",
      keywords |-> << "company", "organization", "employer", "system", "culture",
                      "politics", "structure", "management" >>],
     [theme |-> "Self-doubt/confidence",
      keywords |-> << "confidence", "self-doubt", "imposter", "worthy", "capable",
                      "qualified", "deserve" >> ] >>

UNCATEGORIZED == "Other/Uncategorized"

(***************************************************************************)
(* Python string primitives used by the helpers                            *)
(***************************************************************************)
Range(seq) == { seq[i] : i \in 1..Len(seq) }

CharAt(s, i) == SubSeq(s, i, i)

Whitespace == { " ", "\t", "\n", "\r" }

\* str.strip(): drop leading and trailing whitespace
Strip(s) ==
  LET idx == { i \in 1..Len(s) : CharAt(s, i) \notin Whitespace }
  IN  IF idx = {} THEN ""
      ELSE LET lo == CHOOSE i \in idx : \A j \in idx : i <= j
               hi == CHOOSE i \in idx : \A j \in idx : i >= j
           IN  SubSeq(s, lo, hi)

\* str.split(","): the fragments between commas, empty ones included
Split(s) ==
  LET commas == { i \in 1..Len(s) : CharAt(s, i) = "," }
      F[i \in 1..(Len(s) + 1)] ==
        \* fragments of the suffix that starts at position i
        LET rest == { c \in commas : c >= i }
        IN  IF rest = {} THEN << SubSeq(s, i, Len(s)) >>
            ELSE LET c == CHOOSE k \in rest : \A j \in rest : k <= j
                 IN  << SubSeq(s, i, c - 1) >> \o F[c + 1]
  IN  F[1]

UPPERCASE == "ABCDEFGHIJKLMNOPQRSTUVWXYZ"
LOWERCASE == "abcdefghijklmnopqrstuvwxyz"

LowerChar(c) ==
  IF \E i \in 1..Len(UPPERCASE) : CharAt(UPPERCASE, i) = c
  THEN CharAt(LOWERCASE, CHOOSE i \in 1..Len(UPPERCASE) : CharAt(UPPERCASE, i) = c)
  ELSE c

\* str.lower()
Lower(s) ==
  LET F[i \in 0..Len(s)] == IF i = 0 THEN "" ELSE F[i - 1] \o LowerChar(CharAt(s, i))
  IN  F[Len(s)]

\* Python "keyword in text" on strings: substring test
Contains(text, keyword) ==
  \E i \in 1..(Len(text) - Len(keyword) + 1) :
     SubSeq(text, i, i + Len(keyword) - 1) = keyword

StrOfNat(n) ==
  LET digits == "0123456789"
      F[k \in 0..n] == IF k < 10 THEN CharAt(digits, k + 1)
                       ELSE F[k \div 10] \o CharAt(digits, (k % 10) + 1)
  IN  F[n]

\* pd.isna / pd.notna on a cell
IsNa(cell) == cell.t = "nan"

\* str(value) / Series.astype(str) on a cell
Str(cell) ==
  CASE cell.t = "str" -> cell.v
    [] cell.t = "int" -> StrOfNat(cell.v)
    [] cell.t = "nan" -> "nan"

(***************************************************************************)
(* State                                                                   *)
(***************************************************************************)
VARIABLES
  catalog,        \* the ALLOWED dict (its entries for the columns of df)
  df,             \* the loaded DataFrame: [columns, rows]
  selected,       \* sidebar multiselect state: demographic question -> chosen values
  filtered,       \* the frame returned by apply_demographic_filters
  metrics,        \* the "Sample size" metrics: [total, filtered]
  qi,             \* position of the script in "for col in question_cols" (0: not started)
  s,              \* the normalised Series built by the last frequency_for_question
  freq,           \* the table returned by the last frequency_for_question
  all_responses,  \* the list returned by the last get_all_responses
  themes,         \* the dict returned by the last create_themes_for_frustrations
  theme_data      \* the rows of the Themes table of the last pass

vars == << catalog, df, selected, filtered, metrics, qi, s, freq,
           all_responses, themes, theme_data >>

(***************************************************************************)
(* Helpers                                                                 *)
(***************************************************************************)
\* dict.get(col, None): << >> stands for None, << v >> for a value
None == << >>

AllowedGet(col) == IF col \in DOMAIN catalog THEN << catalog[col] >> ELSE None

\* bucket_value with the unrecognised value returned as it is
bucket_value_raw(value, allowed) ==
  IF IsNa(value) THEN ""
  ELSE LET v == Strip(Str(value))
       IN  IF v = "" THEN "" ELSE v

bucket_value(value, allowed) ==
  IF IsNa(value) THEN ""
  ELSE LET v == Strip(Str(value))
       IN  IF v = "" THEN ""
           ELSE IF v \in Range(allowed) THEN v ELSE OTHER_LABEL

\* Series.dropna()
DropNa(series) == SelectSeq(series, LAMBDA c : ~IsNa(c))

\* [p.strip() for p in raw.split(",") if p.strip()]
Parts(raw) ==
  LET sp == Split(raw)
      F[i \in 0..Len(sp)] ==
        IF i = 0 THEN << >>
        ELSE IF Strip(sp[i]) # "" THEN Append(F[i - 1], Strip(sp[i])) ELSE F[i - 1]
  IN  F[Len(sp)]

\* explode_multiselect without dropna(): a missing cell is read as "nan"
explode_multiselect_no_dropna(series, allowed) ==
  LET Bucketed(parts) == [ k \in 1..Len(parts) |->
                             bucket_value([t |-> "str", v |-> parts[k]], allowed) ]
      items[i \in 0..Len(series)] ==
        IF i = 0 THEN << >>
        ELSE items[i - 1] \o Bucketed(Parts(Str(series[i])))
  IN  SelectSeq(items[Len(series)], LAMBDA it : it # "")

explode_multiselect(series, allowed) ==
  LET present == DropNa(series)
      Bucketed(parts) == [ k \in 1..Len(parts) |->
                             bucket_value([t |-> "str", v |-> parts[k]], allowed) ]
      items[i \in 0..Len(present)] ==
        IF i = 0 THEN << >>
        ELSE items[i - 1] \o Bucketed(Parts(Str(present[i])))
  IN  SelectSeq(items[Len(present)], LAMBDA it : it # "")

\* df[col]
Column(frame, col) == [ i \in 1..Len(frame.rows) |-> frame.rows[i][col] ]

\* Round1 truncating instead of rounding
Round1_truncated(count, total) == (count * 1000) \div total

\* round(count / total * 100, 1) in tenths of a percent, ties to even
Round1(count, total) ==
  LET q == (count * 1000) \div total
      r == (count * 1000) % total
  IN  IF 2 * r < total THEN q
      ELSE IF 2 * r > total THEN q + 1
      ELSE IF q % 2 = 0 THEN q ELSE q + 1

Count(series, a) == Cardinality({ i \in 1..Len(series) : series[i] = a })

\* the distinct values of a Series in first-seen order
Distinct(series) ==
  LET F[i \in 0..Len(series)] ==
        IF i = 0 THEN << >>
        ELSE IF series[i] \in Range(F[i - 1]) THEN F[i - 1]
             ELSE Append(F[i - 1], series[i])
  IN  F[Len(series)]

\* Series.value_counts(): (value, count) by count descending; equal counts
\* keep first-seen order
value_counts(series) ==
  LET d == Distinct(series)
      Before(a, b) ==
        \/ Count(series, a) > Count(series, b)
        \/ /\ Count(series, a) = Count(series, b)
           /\ (CHOOSE i \in 1..Len(d) : d[i] = a) < (CHOOSE i \in 1..Len(d) : d[i] = b)
      Rank(a) == 1 + Cardinality({ b \in Range(d) : Before(b, a) })
  IN  [ k \in 1..Len(d) |->
          LET a == CHOOSE v \in Range(d) : Rank(v) = k
          IN  [answer |-> a, count |-> Count(series, a)] ]

SumCounts(counts) ==
  LET F[i \in 0..Len(counts)] == IF i = 0 THEN 0 ELSE F[i - 1] + counts[i].count
  IN  F[Len(counts)]

\* (counts / total * 100).round(1) if total > 0 else counts * 0
Percentage(count, total) == IF total > 0 THEN Round1(count, total) ELSE 0

\* the DataFrame built from counts and percentages
FrequencyTable(series) ==
  LET counts == value_counts(series)
      total == SumCounts(counts)
  IN  [ k \in 1..Len(counts) |->
          [answer |-> counts[k].answer,
           count |-> counts[k].count,
           percentage |-> Percentage(counts[k].count, total)] ]

\* NormalizedSeries without "s = s[s != '']" on the single-select path
NormalizedSeries_blanks_kept(frame, col) ==
  LET allowed == AllowedGet(col)
  IN  IF col \in MULTI_SELECT
      THEN IF allowed = None
           THEN explode_multiselect(Column(frame, col), << >>)
           ELSE explode_multiselect(Column(frame, col), allowed[1])
      ELSE LET raw == Column(frame, col)
           IN  [ i \in 1..Len(raw) |->
                   IF allowed # None
                   THEN IF ~IsNa(raw[i]) THEN bucket_value(raw[i], allowed[1]) ELSE ""
                   ELSE IF ~IsNa(raw[i]) THEN Strip(Str(raw[i])) ELSE "" ]

\* the Series s that frequency_for_question counts
NormalizedSeries(frame, col) ==
  LET allowed == AllowedGet(col)
  IN  IF col \in MULTI_SELECT
      THEN IF allowed = None
           THEN explode_multiselect(Column(frame, col), << >>)
           ELSE explode_multiselect(Column(frame, col), allowed[1])
      ELSE LET raw == Column(frame, col)
               applied == [ i \in 1..Len(raw) |->
                              IF allowed # None
                              THEN IF ~IsNa(raw[i]) THEN bucket_value(raw[i], allowed[1]) ELSE ""
                              ELSE IF ~IsNa(raw[i]) THEN Strip(Str(raw[i])) ELSE "" ]
           IN  SelectSeq(applied, LAMBDA v : v # "")

frequency_for_question(frame, col) == FrequencyTable(NormalizedSeries(frame, col))

get_all_responses(frame, col) ==
  LET present == DropNa(Column(frame, col))
      F[i \in 0..Len(present)] ==
        IF i = 0 THEN << >>
        ELSE IF IsNa(present[i]) THEN F[i - 1]
             ELSE IF Strip(Str(present[i])) # "" THEN Append(F[i - 1], Strip(Str(present[i])))
                  ELSE F[i - 1]
  IN  F[Len(present)]

\* any(keyword in response_lower for keyword in keywords)
AnyKeyword(response_lower, keywords) ==
  \E k \in 1..Len(keywords) : Contains(response_lower, keywords[k])

\* ThemeIndex without the break: the last matching theme wins
ThemeIndex_no_break(response) ==
  LET response_lower == Lower(response)
      Scan[k \in 0..Len(THEMES)] ==
        IF k = 0 THEN 0
        ELSE IF AnyKeyword(response_lower, THEMES[k].keywords) THEN k
             ELSE Scan[k - 1]
  IN  Scan[Len(THEMES)]

\* the inner "for theme, keywords in themes.items()" loop with its break:
\* the index of the theme the response is appended to, 0 when the loop
\* ends with categorized_flag still False
ThemeIndex(response) ==
  LET response_lower == Lower(response)
      Scan[k \in 1..(Len(THEMES) + 1)] ==
        IF k > Len(THEMES) THEN 0
        ELSE IF AnyKeyword(response_lower, THEMES[k].keywords) THEN k
             ELSE Scan[k + 1]
  IN  Scan[1]

\* create_themes_for_frustrations without the overflow theme
create_themes_no_overflow(responses) ==
  IF responses = << >> THEN << >>
  ELSE LET idx == [ i \in 1..Len(responses) |-> ThemeIndex(responses[i]) ]
           Bucket(k) ==
             LET F[i \in 0..Len(responses)] ==
                   IF i = 0 THEN << >>
                   ELSE IF idx[i] = k THEN Append(F[i - 1], responses[i]) ELSE F[i - 1]
             IN  F[Len(responses)]
           categorized[k \in 0..Len(THEMES)] ==
             IF k = 0 THEN << >>
             ELSE IF Bucket(k) # << >>
                  THEN Append(categorized[k - 1],
                              [theme |-> THEMES[k].theme, responses |-> Bucket(k)])
                  ELSE categorized[k - 1]
       IN  categorized[Len(THEMES)]

\* the dict returned, as the sequence of its (theme, responses) items in
\* insertion order
create_themes_for_frustrations(responses) ==
  IF responses = << >> THEN << >>
  ELSE LET idx == [ i \in 1..Len(responses) |-> ThemeIndex(responses[i]) ]
           Bucket(k) ==
             LET F[i \in 0..Len(responses)] ==
                   IF i = 0 THEN << >>
                   ELSE IF idx[i] = k THEN Append(F[i - 1], responses[i]) ELSE F[i - 1]
             IN  F[Len(responses)]
           categorized[k \in 0..Len(THEMES)] ==
             IF k = 0 THEN << >>
             ELSE IF Bucket(k) # << >>
                  THEN Append(categorized[k - 1],
                              [theme |-> THEMES[k].theme, responses |-> Bucket(k)])
                  ELSE categorized[k - 1]
           uncategorized == Bucket(0)
       IN  IF uncategorized # << >>
           THEN Append(categorized[Len(THEMES)],
                       [theme |-> UNCATEGORIZED, responses |-> uncategorized])
           ELSE categorized[Len(THEMES)]

\* the rows of the Themes table
ThemeData(th, responses) ==
  LET total_responses == Len(responses)
  IN  [ k \in 1..Len(th) |->
          [Theme |-> th[k].theme,
           Percentage |-> IF total_responses > 0
                          THEN Round1(Len(th[k].responses), total_responses)
                          ELSE 0] ]

\* the options offered by the sidebar multiselect of one demographic question
\* (their order only matters to the display, so they are kept as a set)
Options(frame, col) ==
  LET allowed == AllowedGet(col)
      options == { Str(c) : c \in Range(DropNa(Column(frame, col))) }
  IN  IF allowed # None /\ allowed[1] # << >>
      THEN Range(allowed[1]) \cup { o \in options : o \notin Range(allowed[1]) }
      ELSE options

\* IsIn without astype(str): only cells that are already strings compare equal
IsIn_no_astype(frame, col, sel) ==
  [columns |-> frame.columns,
   rows |-> SelectSeq(frame.rows, LAMBDA row : row[col].t = "str" /\ row[col].v \in sel)]

\* filtered = filtered[filtered[col].astype(str).isin(selected)]
IsIn(frame, col, sel) ==
  [columns |-> frame.columns,
   rows |-> SelectSeq(frame.rows, LAMBDA row : Str(row[col]) \in sel)]

\* one iteration of "for col in DEMOGRAPHIC_COLS"
FilterStep(frame, col, sel) ==
  IF col \notin Range(frame.columns) THEN frame
  ELSE IF sel # {} THEN IsIn(frame, col, sel) ELSE frame

\* FilterPrefix with each iteration filtering the caller's frame again
\* (filtered = df[...]): the last constrained question wins
FilterPrefix_restart(frame, sel, k) ==
  LET F[j \in 0..k] ==
        IF j = 0 THEN frame
        ELSE IF DEMOGRAPHIC_COLS[j] \in Range(frame.columns) /\ sel[DEMOGRAPHIC_COLS[j]] # {}
             THEN FilterStep(frame, DEMOGRAPHIC_COLS[j], sel[DEMOGRAPHIC_COLS[j]])
             ELSE F[j - 1]
  IN  F[k]

\* the frame after the first k iterations of the loop
FilterPrefix(frame, sel, k) ==
  LET F[j \in 0..k] ==
        IF j = 0 THEN frame
        ELSE FilterStep(F[j - 1], DEMOGRAPHIC_COLS[j], sel[DEMOGRAPHIC_COLS[j]])
  IN  F[k]

\* apply_demographic_filters without df.copy(), filtering the caller's frame
apply_demographic_filters_in_place(frame, sel) ==
  [input |-> FilterPrefix(frame, sel, Len(DEMOGRAPHIC_COLS)),
   out |-> FilterPrefix(frame, sel, Len(DEMOGRAPHIC_COLS))]

\* the call on the frame df under the sidebar choice sel: "input" is the
\* caller's frame as the call leaves it (the loop works on df.copy()),
\* "out" the frame returned
apply_demographic_filters(frame, sel) ==
  [input |-> frame,
   out |-> FilterPrefix(frame, sel, Len(DEMOGRAPHIC_COLS))]

\* a choice the sidebar can deliver: every chosen value is one of the
\* options the widget of that column shows when the loop reaches it
Selectable(frame, sel) ==
  \A k \in 1..Len(DEMOGRAPHIC_COLS) :
     LET col == DEMOGRAPHIC_COLS[k]
     IN  IF col \in Range(frame.columns)
         THEN sel[col] \subseteq Options(FilterPrefix(frame, sel, k - 1), col)
         ELSE sel[col] = {}

\* question_cols
question_cols(frame) ==
  SelectSeq(frame.columns,
            LAMBDA c : c # PROLIFIC_COL /\ c \notin Range(DEMOGRAPHIC_COLS))

(***************************************************************************)
(* Inputs: the workbooks load_data may return                              *)
(***************************************************************************)
\* respondents of a workbook drawn from RowPool
MaxRows == 2
\* values ticked in the sidebar, all multiselects together
MaxSelected == 2

StrCell(v) == [t |-> "str", v |-> v]
IntCell(n) == [t |-> "int", v |-> n]
NaN == [t |-> "nan"]

AllColumns ==
  << PROLIFIC_COL, Q_EXPERIENCE, Q_ROLE, Q_GENDER, Q_ASSESSMENT, Q_SOURCES,
     FRUSTRATION_QUESTION, Q_FREETEXT >>

Row(id, experience, role, gender, assessment, sources, frustration, freetext) ==
  [ c \in Range(AllColumns) |->
      CASE c = PROLIFIC_COL -> id
        [] c = Q_EXPERIENCE -> experience
        [] c = Q_ROLE -> role
        [] c = Q_GENDER -> gender
        [] c = Q_ASSESSMENT -> assessment
        [] c = Q_SOURCES -> sources
        [] c = FRUSTRATION_QUESTION -> frustration
        [] c = Q_FREETEXT -> freetext ]

\* respondents with recognised, unrecognised, padded, numeric, blank and
\* missing cells
RowPool ==
  << Row(StrCell("p1"), StrCell("0-3"), StrCell("People Manager"), StrCell("Male"),
         StrCell(" Yes "), StrCell("Manager, Peers, Bogus"),
         StrCell("Paid coach had NO TIME"), StrCell("n/a")),
     Row(StrCell("p2"), IntCell(20), StrCell("People Manager"), StrCell("Female"),
         StrCell("Maybe"), StrCell("Coach or Mentor,,Assessment tools, Self-reflection only"),
         StrCell("too expensive for me"), StrCell(" n/a ")),
     Row(StrCell("p3"), NaN, StrCell("Intern"), NaN,
         StrCell(""), StrCell(" , "), StrCell("  "), NaN),
     Row(StrCell("p4"), StrCell("nan"), StrCell("Senior Leader"), StrCell("Male"),
         NaN, NaN, StrCell("great program"), IntCell(0)) >>

\* the five respondents of the documented scenarios
ScenarioRows ==
  << Row(StrCell("s1"), StrCell("8-15"), StrCell("Senior Leader"), StrCell("Female"),
         StrCell("Yes"), StrCell("Manager"), StrCell("no time to do anything"), StrCell("Fine")),
     Row(StrCell("s2"), StrCell("8-15"), StrCell("Senior Leader"), StrCell("Female"),
         StrCell("Yes"), StrCell("Peers"), StrCell("too expensive for me"), StrCell("Fine")),
     Row(StrCell("s3"), StrCell("8-15"), StrCell("Senior Leader"), StrCell("Female"),
         StrCell("No"), StrCell("manager"), StrCell("great program"), StrCell("fine")),
     Row(StrCell("s4"), StrCell("8-15"), StrCell("Senior Leader"), StrCell("Female"),
         StrCell(""), StrCell(""), StrCell(""), StrCell("")),
     Row(StrCell("s5"), StrCell("8-15"), StrCell("Senior Leader"), StrCell("Female"),
         StrCell("Maybe"), NaN, NaN, NaN) >>

\* the sequences of at most n rows of S, no respondent twice
SeqsUpTo(S, n) ==
  { rows \in UNION { [1..k -> S] : k \in 0..n } :
      \A i, j \in 1..Len(rows) : rows[i] = rows[j] => i = j }

Frame(columns, rows) ==
  [columns |-> columns,
   rows |-> [ i \in 1..Len(rows) |-> [ c \in Range(columns) |-> rows[i][c] ] ]]

\* the workbook may lack a demographic column
PartialColumns == SelectSeq(AllColumns, LAMBDA c : c # Q_GENDER)

DataSets ==
  { Frame(AllColumns, rows) : rows \in SeqsUpTo(Range(RowPool), MaxRows) \cup { ScenarioRows } }
    \cup { Frame(PartialColumns, rows) : rows \in SeqsUpTo(Range(RowPool), MaxRows - 1) }

\* the entries of ALLOWED a run over the frame can look up: ALLOWED.get is
\* only called with the names of columns of the frame
Catalog(entries, frame) ==
  [ q \in (DOMAIN entries) \cap Range(frame.columns) |-> entries[q] ]

NumSelected(sel) ==
  LET F[k \in 0..Len(DEMOGRAPHIC_COLS)] ==
        IF k = 0 THEN 0 ELSE F[k - 1] + Cardinality(sel[DEMOGRAPHIC_COLS[k]])
  IN  F[Len(DEMOGRAPHIC_COLS)]

\* the sidebar states one interaction away from sel: the user ticks or
\* unticks one value of one multiselect
Interactions(frame, sel) ==
  LET dem == { c \in Range(DEMOGRAPHIC_COLS) : c \in Range(frame.columns) }
      Tick(c) == { [sel EXCEPT ![c] = sel[c] \cup {o}] : o \in Options(frame, c) \ sel[c] }
      Untick(c) == { [sel EXCEPT ![c] = sel[c] \ {o}] : o \in sel[c] }
  IN  UNION { Tick(c) \cup Untick(c) : c \in dem }

NoSelection == [ c \in Range(DEMOGRAPHIC_COLS) |-> {} ]

(***************************************************************************)
(* The script                                                              *)
(***************************************************************************)
Init ==
  /\ df \in DataSets
  /\ catalog = Catalog(ALLOWED, df)
  /\ selected = NoSelection
  /\ filtered = Frame(df.columns, << >>)
  /\ metrics = [total |-> 0, filtered |-> 0]
  /\ qi = 0
  /\ s = << >>
  /\ freq = << >>
  /\ all_responses = << >>
  /\ themes = << >>
  /\ theme_data = << >>

\* a script run starts: the sidebar is drawn (every multiselect empty on the
\* first run, one interaction away from the previous run afterwards), the
\* frame filtered and the "Sample size" metrics shown
ApplyDemographicFilters ==
  /\ qi = 0 \/ qi > Len(question_cols(df))
  /\ \E sel \in (IF qi = 0 THEN {NoSelection} ELSE Interactions(df, selected)) :
       /\ NumSelected(sel) <= MaxSelected
       /\ Selectable(df, sel)
       /\ LET call == apply_demographic_filters(df, sel)
          IN  /\ df' = call.input
              /\ filtered' = call.out
              /\ metrics' = [total |-> Len(call.input.rows), filtered |-> Len(call.out.rows)]
       /\ selected' = sel
  /\ qi' = 1
  /\ s' = << >>
  /\ freq' = << >>
  /\ all_responses' = << >>
  /\ themes' = << >>
  /\ theme_data' = << >>
  /\ UNCHANGED catalog

\* one iteration of "for col in question_cols", the else branch
RenderFrequency ==
  /\ qi \in 1..Len(question_cols(df))
  /\ LET col == question_cols(df)[qi]
     IN  /\ col \in Range(filtered.columns)
         /\ col # FRUSTRATION_QUESTION
         /\ s' = NormalizedSeries(filtered, col)
         /\ freq' = frequency_for_question(filtered, col)
  /\ qi' = qi + 1
  /\ UNCHANGED << catalog, df, selected, filtered, metrics, all_responses, themes, theme_data >>

\* one iteration of "for col in question_cols", the frustration question
RenderThemes ==
  /\ qi \in 1..Len(question_cols(df))
  /\ LET col == question_cols(df)[qi]
     IN  /\ col \in Range(filtered.columns)
         /\ col = FRUSTRATION_QUESTION
         /\ all_responses' = get_all_responses(filtered, col)
         /\ IF all_responses' # << >>
            THEN /\ themes' = create_themes_for_frustrations(all_responses')
                 /\ theme_data' = IF themes' # << >>
                                  THEN ThemeData(themes', all_responses')
                                  ELSE theme_data
            ELSE UNCHANGED << themes, theme_data >>
  /\ qi' = qi + 1
  /\ UNCHANGED << catalog, df, selected, filtered, metrics, s, freq >>

Next ==
  \/ ApplyDemographicFilters
  \/ RenderFrequency
  \/ RenderThemes

Spec == Init /\ [][Next]_vars

(***************************************************************************)
(* Vocabulary of the properties                                            *)
(***************************************************************************)
\* the loop has just left frequency_for_question for the column FreqCol
FreqRendered == qi > 1 /\ question_cols(df)[qi - 1] # FRUSTRATION_QUESTION
FreqCol == question_cols(df)[qi - 1]

\* the loop has been through the frustration question in this run
ThemesRendered ==
  \E k \in 1..Len(question_cols(df)) :
     question_cols(df)[k] = FRUSTRATION_QUESTION /\ qi > k

\* a cell that is missing, empty or made of whitespace only
Blank(cell) ==
  \/ IsNa(cell)
  \/ \A i \in 1..Len(Str(cell)) : CharAt(Str(cell), i) \in Whitespace

Answers(table) == { table[k].answer : k \in 1..Len(table) }

SumPercentages(table) ==
  LET F[i \in 0..Len(table)] == IF i = 0 THEN 0 ELSE F[i - 1] + table[i].percentage
  IN  F[Len(table)]

Abs(n) == IF n < 0 THEN 0 - n ELSE n

\* the comma-separated fragments of a raw cell, each named by the position
\* of its first character
FragStarts(raw) == { a \in 1..(Len(raw) + 1) : a = 1 \/ CharAt(raw, a - 1) = "," }
FragEnd(raw, a) ==
  (CHOOSE j \in a..(Len(raw) + 1) :
     /\ j = Len(raw) + 1 \/ CharAt(raw, j) = ","
     /\ \A i \in a..(j - 1) : CharAt(raw, i) # ",") - 1
FragNonEmpty(raw, a) == \E i \in a..FragEnd(raw, a) : CharAt(raw, i) \notin Whitespace
\* the fragment is the label, up to surrounding whitespace
FragIs(raw, a, label) ==
  \E lo \in a..FragEnd(raw, a) :
     LET hi == lo + Len(label) - 1
     IN  /\ hi <= FragEnd(raw, a)
         /\ SubSeq(raw, lo, hi) = label
         /\ \A i \in (a..FragEnd(raw, a)) \ (lo..hi) : CharAt(raw, i) \in Whitespace

\* the non-empty fragments of a column, as (row, start) pairs
Fragments(frame, col) ==
  UNION { { << i, a >> : a \in { b \in FragStarts(Str(frame.rows[i][col])) :
                                   FragNonEmpty(Str(frame.rows[i][col]), b) } } :
          i \in { j \in 1..Len(frame.rows) : ~IsNa(frame.rows[j][col]) } }

FragmentsThatAre(frame, col, label) ==
  { f \in Fragments(frame, col) : FragIs(Str(frame.rows[f[1]][col]), f[2], label) }

NumConstrained(sel) == Cardinality({ c \in Range(DEMOGRAPHIC_COLS) : sel[c] # {} })

(***************************************************************************)
(* C1: for a question with a permitted set, every answer label of the      *)
(* table returned by frequency_for_question is a permitted label or        *)
(* "other"; blank cells give no row, and no raw unrecognised string is     *)
(* ever an answer label.                                                   *)
(***************************************************************************)
C1_LabelsArePermittedOrOther ==
  (FreqRendered /\ FreqCol \in DOMAIN catalog) =>
     /\ Answers(freq) \subseteq (Range(catalog[FreqCol]) \cup {OTHER_LABEL})
     /\ \A a \in Answers(freq) : ~Blank(StrCell(a))

C1_Witness ==
  /\ FreqRendered /\ FreqCol = Q_ASSESSMENT
  /\ \E i \in 1..Len(filtered.rows) : Str(filtered.rows[i][FreqCol]) = "Maybe"
  /\ \E i \in 1..Len(filtered.rows) : Blank(filtered.rows[i][FreqCol])
  /\ OTHER_LABEL \in Answers(freq) /\ "Yes" \in Answers(freq)

(***************************************************************************)
(* C2 (as stated): the percentages of the table sum to within 0.1 of 100.0 *)
(* whenever the total count is greater than 0, and the table has no rows   *)
(* when the total count is 0.                                              *)
(***************************************************************************)
C2_SumWithinOneTenth ==
  FreqRendered =>
     /\ Len(s) > 0 => Abs(SumPercentages(freq) - 1000) <= 1
     /\ Len(s) = 0 => freq = << >>

(***************************************************************************)
(* C2 (amended): the percentages sum to within 0.05 times the number of    *)
(* rows of 100.0 whenever the total count is greater than 0 (each row is   *)
(* rounded on its own), and the table has no rows when the total is 0.     *)
(***************************************************************************)
C2_SumWithinHalfTenthPerRow ==
  FreqRendered =>
     /\ Len(s) > 0 => 2 * Abs(SumPercentages(freq) - 1000) <= Len(freq)
     /\ Len(s) = 0 => freq = << >>

C2_Witness ==
  /\ FreqRendered
  /\ Len(freq) = 6
  /\ SumPercentages(freq) = 1002

(***************************************************************************)
(* C3: for a single-select question with a permitted set the table has one *)
(* row per distinct normalised token, counting the rows whose cell         *)
(* normalises to it; blank cells are left out, the counts sum to the       *)
(* number of non-blank cells and each percentage is                        *)
(* round(count / total * 100, 1). The five cells Yes, Yes, No, "", Maybe   *)
(* give Yes=2 (50.0), No=1 (25.0), other=1 (25.0).                         *)
(***************************************************************************)
C3_SingleSelectCounts ==
  (FreqRendered /\ FreqCol \in DOMAIN catalog /\ FreqCol \notin MULTI_SELECT) =>
     LET cells == Column(filtered, FreqCol)
         nonblank == { i \in 1..Len(cells) : ~Blank(cells[i]) }
         Token(i) == LET v == Strip(Str(cells[i]))
                     IN  IF \E k \in 1..Len(catalog[FreqCol]) : catalog[FreqCol][k] = v
                         THEN v ELSE OTHER_LABEL
     IN  /\ \A k, l \in 1..Len(freq) : freq[k].answer = freq[l].answer => k = l
         /\ Answers(freq) = { Token(i) : i \in nonblank }
         /\ \A k \in 1..Len(freq) :
              /\ freq[k].count = Cardinality({ i \in nonblank : Token(i) = freq[k].answer })
              /\ freq[k].percentage = Round1(freq[k].count, Cardinality(nonblank))
         /\ SumCounts(freq) = Cardinality(nonblank)
         /\ \A k \in 1..(Len(freq) - 1) : freq[k].count >= freq[k + 1].count
         /\ (filtered.rows = ScenarioRows /\ FreqCol = Q_ASSESSMENT) =>
              { freq[k] : k \in 1..Len(freq) } =
                { [answer |-> "Yes", count |-> 2, percentage |-> 500],
                  [answer |-> "No", count |-> 1, percentage |-> 250],
                  [answer |-> OTHER_LABEL, count |-> 1, percentage |-> 250] }

C3_Witness ==
  /\ FreqRendered /\ FreqCol = Q_ASSESSMENT
  /\ filtered.rows = ScenarioRows
  /\ Len(freq) = 3 /\ freq[1] = [answer |-> "Yes", count |-> 2, percentage |-> 500]

(***************************************************************************)
(* C4: explode_multiselect yields one token per comma-separated fragment   *)
(* that is non-empty after trimming: the fragment itself when it is a      *)
(* permitted label, "other" otherwise; empty fragments and missing cells   *)
(* give no token. "Manager, Peers, Bogus" yields Manager, Peers, other,    *)
(* and the counts of the multi-select table sum to the number of non-empty *)
(* fragments over all rows.                                                *)
(***************************************************************************)
C4_OneTokenPerFragment ==
  (FreqRendered /\ FreqCol \in DOMAIN catalog /\ FreqCol \in MULTI_SELECT) =>
     LET frags == Fragments(filtered, FreqCol)
         permitted == Range(catalog[FreqCol])
         labelled == UNION { FragmentsThatAre(filtered, FreqCol, label) : label \in permitted }
     IN  /\ Len(s) = Cardinality(frags)
         /\ \A label \in permitted :
              Count(s, label) = Cardinality(FragmentsThatAre(filtered, FreqCol, label))
         /\ Count(s, OTHER_LABEL) = Cardinality(frags \ labelled)
         /\ SumCounts(freq) = Cardinality(frags)
         /\ (Len(filtered.rows) = 1 /\ filtered.rows[1][FreqCol] = StrCell("Manager, Peers, Bogus")) =>
              s = << "Manager", "Peers", OTHER_LABEL >>

C4_Witness ==
  /\ FreqRendered /\ FreqCol = Q_SOURCES
  /\ Len(filtered.rows) = 1
  /\ filtered.rows[1][FreqCol] = StrCell("Manager, Peers, Bogus")
  /\ s = << "Manager", "Peers", OTHER_LABEL >>
  /\ SumCounts(freq) = 3

(***************************************************************************)
(* C5: theming is total: every response handed to                          *)
(* create_themes_for_frustrations, counted with multiplicity, is in        *)
(* exactly one theme of the mapping returned (the "Other/Uncategorized"    *)
(* overflow included), so the theme sizes sum to the number of responses;  *)
(* the mapping is a function of the responses alone.                       *)
(***************************************************************************)
ThemeSizes(th) ==
  LET F[k \in 0..Len(th)] == IF k = 0 THEN 0 ELSE F[k - 1] + Len(th[k].responses)
  IN  F[Len(th)]

OccurrencesInThemes(th, r) ==
  LET F[k \in 0..Len(th)] == IF k = 0 THEN 0 ELSE F[k - 1] + Count(th[k].responses, r)
  IN  F[Len(th)]

C5_ThemingIsTotal ==
  ThemesRendered =>
     /\ ThemeSizes(themes) = Len(all_responses)
     /\ \A r \in Range(all_responses) :
          OccurrencesInThemes(themes, r) = Count(all_responses, r)
     /\ \A k, l \in 1..Len(themes) : themes[k].theme = themes[l].theme => k = l
     /\ \A k \in 1..Len(themes) : themes[k].responses # << >>
     /\ all_responses = << >> => themes = << >>

C5_Witness ==
  /\ ThemesRendered
  /\ Len(all_responses) >= 3
  /\ Len(themes) >= 2
  /\ \E k \in 1..Len(themes) : themes[k].theme = UNCATEGORIZED

(***************************************************************************)
(* C6: each response goes to the first theme, in the declared order of the *)
(* catalog, one of whose keywords is a substring of the lowercased         *)
(* response, and to no other theme even when later themes match too; a     *)
(* response that matches no keyword goes to "Other/Uncategorized". The     *)
(* three responses "no time to do anything", "too expensive for me",       *)
(* "great program" give Time constraints, Cost/money and                   *)
(* Other/Uncategorized one response each, 33.3% each.                      *)
(***************************************************************************)
Matches(k, r) ==
  LET low == Lower(r)
  IN  \E w \in Range(THEMES[k].keywords) : Contains(low, w)

\* the themes that match a response
Matching(r) ==
  LET low == Lower(r)
  IN  { k \in 1..Len(THEMES) : \E w \in Range(THEMES[k].keywords) : Contains(low, w) }

C6_FirstMatchWins ==
  ThemesRendered =>
     /\ \A e \in 1..Len(themes) : \A r \in Range(themes[e].responses) :
          LET m == Matching(r)
          IN  IF themes[e].theme = UNCATEGORIZED
              THEN m = {}
              ELSE \E k \in m : /\ THEMES[k].theme = themes[e].theme
                                /\ \A j \in m : k <= j
     /\ all_responses = << "no time to do anything", "too expensive for me", "great program" >> =>
          /\ themes = << [theme |-> "Time constraints", responses |-> << "no time to do anything" >>],
                         [theme |-> "Cost/money", responses |-> << "too expensive for me" >>],
                         [theme |-> UNCATEGORIZED, responses |-> << "great program" >>] >>
          /\ theme_data = << [Theme |-> "Time constraints", Percentage |-> 333],
                             [Theme |-> "Cost/money", Percentage |-> 333],
                             [Theme |-> UNCATEGORIZED, Percentage |-> 333] >>

\* a response that three themes match sits in the first of them only
C6_Witness ==
  /\ ThemesRendered
  /\ \E e \in 1..Len(themes) :
       /\ themes[e].theme = "Time constraints"
       /\ "Paid coach had NO TIME" \in Range(themes[e].responses)
  /\ Matches(2, "Paid coach had NO TIME") /\ Matches(3, "Paid coach had NO TIME")
  /\ \E e \in 1..Len(themes) : themes[e].theme = UNCATEGORIZED

(***************************************************************************)
(* C7: a row is in the frame returned by apply_demographic_filters if and  *)
(* only if, for every demographic question whose chosen set is not empty,  *)
(* the row's value coerced to a string is in that set; with nothing chosen *)
(* the frame returned has the rows and the content of the input.           *)
(***************************************************************************)
Survives(row, sel) ==
  \A c \in Range(DEMOGRAPHIC_COLS) : sel[c] # {} => Str(row[c]) \in sel[c]

C7_FilterIsConjunction ==
  qi >= 1 =>
     /\ filtered.columns = df.columns
     /\ filtered.rows = SelectSeq(df.rows, LAMBDA row : Survives(row, selected))
     /\ selected = NoSelection => filtered = df

C7_Witness ==
  /\ qi >= 1
  /\ NumConstrained(selected) = 2
  /\ Len(filtered.rows) = 1
  /\ Len(df.rows) = 2
  /\ \E i \in 1..Len(df.rows) : df.rows[i][Q_EXPERIENCE].t = "int" /\ Survives(df.rows[i], selected)

(***************************************************************************)
(* C8: filtering is monotonic: a run whose sidebar constrains one more     *)
(* demographic question than the run before, the other choices being as    *)
(* they were, never returns more rows than the run before.                 *)
(***************************************************************************)
OneMoreConstraint(old, new) ==
  \E c \in Range(DEMOGRAPHIC_COLS) :
     /\ old[c] = {} /\ new[c] # {}
     /\ \A d \in Range(DEMOGRAPHIC_COLS) \ {c} : new[d] = old[d]

C8_FilterIsMonotonic ==
  [][ (qi >= 1 /\ qi' = 1 /\ OneMoreConstraint(selected, selected')) =>
         Len(filtered'.rows) <= Len(filtered.rows) ]_vars

\* a second question has been constrained and took a row away
C8_Witness ==
  /\ qi >= 1
  /\ NumConstrained(selected) = 2
  /\ Len(filtered.rows) >= 1
  /\ \E c \in Range(DEMOGRAPHIC_COLS) :
       /\ selected[c] # {}
       /\ Len(FilterPrefix(df, [selected EXCEPT ![c] = {}], Len(DEMOGRAPHIC_COLS)).rows)
            > Len(filtered.rows)

(***************************************************************************)
(* C9: for a question with no permitted set every non-blank value goes     *)
(* through as its trimmed raw string and is never bucketed to "other":     *)
(* on the single-select / free-text path the cells, and for a multi-select *)
(* question with no permitted set the trimmed fragments, which the table   *)
(* then counts.                                                            *)
(***************************************************************************)
RawTokens(frame, col) ==
  IF col \in MULTI_SELECT
  THEN LET cells == DropNa(Column(frame, col))
           F[i \in 0..Len(cells)] ==
             IF i = 0 THEN << >> ELSE F[i - 1] \o Parts(Str(cells[i]))
       IN  F[Len(cells)]
  ELSE LET cells == SelectSeq(Column(frame, col), LAMBDA c : ~Blank(c))
       IN  [ i \in 1..Len(cells) |-> Strip(Str(cells[i])) ]

C9_NoPermittedSetPassesThrough ==
  (FreqRendered /\ FreqCol \notin DOMAIN catalog) =>
     /\ s = RawTokens(filtered, FreqCol)
     /\ \A k \in 1..Len(freq) :
          freq[k].count = Count(RawTokens(filtered, FreqCol), freq[k].answer)
     /\ Answers(freq) = Range(RawTokens(filtered, FreqCol))

(***************************************************************************)
(* C10: no run changes the loaded dataset: apply_demographic_filters       *)
(* returns a new frame, the rendering steps leave the frame they read as   *)
(* it is, and the "Total responses" metric is the same in every run.       *)
(***************************************************************************)
C10_DatasetIsNeverMutated ==
  [][ /\ df' = df
      /\ (qi >= 1 /\ qi' >= 1) => metrics'.total = metrics.total
      /\ qi' > 1 => filtered' = filtered ]_vars

\* a second run, with rows filtered out, has gone through every question
C10_Witness ==
  /\ qi > Len(question_cols(df))
  /\ NumConstrained(selected) >= 1
  /\ Len(filtered.rows) < Len(df.rows)
  /\ metrics = [total |-> Len(df.rows), filtered |-> Len(filtered.rows)]
  /\ themes # << >>

(***************************************************************************)
(* The script over a catalog in which a multi-select question of the       *)
(* workbook has no ALLOWED entry: the case the "allowed is None" branch of *)
(* frequency_for_question is written for.                                  *)
(***************************************************************************)
InjectedCatalogs ==
  { [ q \in (DOMAIN ALLOWED) \ {m} |-> ALLOWED[q] ] :
      m \in MULTI_SELECT \cap Range(AllColumns) }

InitInjected ==
  /\ df \in DataSets
  /\ \E entries \in InjectedCatalogs : catalog = Catalog(entries, df)
  /\ selected = NoSelection
  /\ filtered = Frame(df.columns, << >>)
  /\ metrics = [total |-> 0, filtered |-> 0]
  /\ qi = 0
  /\ s = << >>
  /\ freq = << >>
  /\ all_responses = << >>
  /\ themes = << >>
  /\ theme_data = << >>

SpecInjected == InitInjected /\ [][Next]_vars
====
